---- MODULE Spec2Model ----
(***************************************************************************)
(* One rendering pass of the Indavian Mograle Plant dashboard (app.py):    *)
(* the listing of the input namespace, the date index, the user's          *)
(* selection, the input video URL, the detection log, the clip grid, the   *)
(* detection total and the detection table.  Storage keys, file names and  *)
(* URLs are strings and are handled character by character, as the code    *)
(* handles them.                                                           *)
(***************************************************************************)
EXTENDS Integers, Sequences, FiniteSets, TLC

(* ------------------------------ bounds --------------------------------- *)

\* Largest number of objects the bucket holds in a behaviour.
MaxObjects == 3

\* Number of keys one list_objects_v2 response carries (S3: 1000), scaled.
PageSize == 2

\* Largest number of rows of a detection log.
MaxRows == 1

(* ----------------------------- constants ------------------------------- *)

BUCKET_NAME == "plant"

INPUT_PREFIX == "Input"

OUTPUT_PREFIX == "Output"

VideoSuffixes == {".mp4", ".avi", ".mov"}

\* Python's None, as returned by generate_presigned_url and by line 116.
None == "<None>"

\* datetime.today().date(): a day on which no video was uploaded.
Today == <<2025, 7, 23>>

DefaultLatitude == "12.9716"

DefaultLongitude == "77.5946"

NoVideoLink == "N/A"

InputUrlError == "Could not generate URL for input video."

LogNotFoundWarning == "Detection log not found in S3. Run the processing script first."

NoClipsInfo == "No clips saved for the selected target class."

NoVideosWarning == "No videos available for selected date."

SelectVideoInfo == "Please select a video with available detections."

TableError == "Could not load detection log table."

(* --------------------------- string helpers ---------------------------- *)

Ch(s, i) == SubSeq(s, i, i)

Min(S) == CHOOSE x \in S : \A y \in S : x <= y

Max(S) == CHOOSE x \in S : \A y \in S : x >= y

\* The characters of the keys, in code point order.
Ascii == " -./0123456789:<>ABCDEFGHIJKLMNOPQRSTUVWXYZ_abcdefghijklmnopqrstuvwxyz"

Ord(c) == CHOOSE i \in 1..Len(Ascii) : Ch(Ascii, i) = c

UpperCase == "ABCDEFGHIJKLMNOPQRSTUVWXYZ"

LowerCase == "abcdefghijklmnopqrstuvwxyz"

LowerCh(c) ==
  IF \E i \in 1..Len(UpperCase) : Ch(UpperCase, i) = c
  THEN Ch(LowerCase, CHOOSE i \in 1..Len(UpperCase) : Ch(UpperCase, i) = c)
  ELSE c

RECURSIVE Lower(_)
\* str.lower()
Lower(s) == IF Len(s) = 0 THEN "" ELSE LowerCh(Ch(s, 1)) \o Lower(Tail(s))

\* str.startswith: what the Prefix parameter of list_objects_v2 selects by.
StartsWith(s, p) == Len(p) <= Len(s) /\ SubSeq(s, 1, Len(p)) = p

\* str.endswith
EndsWith(s, x) == Len(x) <= Len(s) /\ SubSeq(s, Len(s) - Len(x) + 1, Len(s)) = x

\* Position of the last occurrence of the character c in s, 0 when none.
LastIndex(s, c) == Max({0} \cup {i \in 1..Len(s) : Ch(s, i) = c})

\* Position of the first occurrence of the character c in s, 0 when none.
FirstIndex(s, c) ==
  IF \E i \in 1..Len(s) : Ch(s, i) = c
  THEN Min({i \in 1..Len(s) : Ch(s, i) = c})
  ELSE 0

\* os.path.basename
Basename(key) == SubSeq(key, LastIndex(key, "/") + 1, Len(key))

\* os.path.splitext(name)[0]: the extension starts at the last dot of the
\* base name, unless only dots precede it there.
SplitextRoot(name) ==
  LET slash == LastIndex(name, "/")
      dot == LastIndex(name, ".")
  IN IF dot > slash /\ \E i \in (slash + 1)..(dot - 1) : Ch(name, i) # "."
     THEN SubSeq(name, 1, dot - 1)
     ELSE name

\* filename.split("_")[0]
SplitFirst(s, c) ==
  IF FirstIndex(s, c) = 0 THEN s ELSE SubSeq(s, 1, FirstIndex(s, c) - 1)

\* The order S3 lists keys in: by code point, a proper prefix first.
KeyLess(a, b) ==
  LET n == IF Len(a) < Len(b) THEN Len(a) ELSE Len(b)
      diff == {i \in 1..n : Ch(a, i) # Ch(b, i)}
  IN IF diff = {} THEN Len(a) < Len(b)
     ELSE Ord(Ch(a, Min(diff))) < Ord(Ch(b, Min(diff)))

RECURSIVE SortKeys(_)
SortKeys(S) ==
  IF S = {} THEN <<>>
  ELSE LET k == CHOOSE x \in S : \A y \in S \ {x} : KeyLess(x, y)
       IN <<k>> \o SortKeys(S \ {k})

(* ------------------------- datetime.strptime --------------------------- *)

Digits == "0123456789"

IsDigit(c) == \E i \in 1..10 : Ch(Digits, i) = c

DigitVal(c) == (CHOOSE i \in 1..10 : Ch(Digits, i) = c) - 1

RECURSIVE NumVal(_)
NumVal(s) ==
  IF Len(s) = 0 THEN 0
  ELSE 10 * NumVal(SubSeq(s, 1, Len(s) - 1)) + DigitVal(Ch(s, Len(s)))

\* %Y: exactly four digits.
MatchesYear(s) == Len(s) = 4 /\ \A i \in 1..4 : IsDigit(Ch(s, i))

\* %m: 1[0-2] | 0[1-9] | [1-9]
MatchesMonth(s) ==
  \/ Len(s) = 2 /\ Ch(s, 1) = "1" /\ Ch(s, 2) \in {"0", "1", "2"}
  \/ Len(s) = 2 /\ Ch(s, 1) = "0" /\ IsDigit(Ch(s, 2)) /\ Ch(s, 2) # "0"
  \/ Len(s) = 1 /\ IsDigit(Ch(s, 1)) /\ Ch(s, 1) # "0"

\* %d: 3[0-1] | [1-2]\d | 0[1-9] | [1-9] | " "[1-9]
MatchesDay(s) ==
  \/ Len(s) = 2 /\ Ch(s, 1) = "3" /\ Ch(s, 2) \in {"0", "1"}
  \/ Len(s) = 2 /\ Ch(s, 1) \in {"1", "2"} /\ IsDigit(Ch(s, 2))
  \/ Len(s) = 2 /\ Ch(s, 1) \in {"0", " "} /\ IsDigit(Ch(s, 2)) /\ Ch(s, 2) # "0"
  \/ Len(s) = 1 /\ IsDigit(Ch(s, 1)) /\ Ch(s, 1) # "0"

IsLeap(y) == (y % 4 = 0 /\ y % 100 # 0) \/ y % 400 = 0

DaysInMonth(y, m) ==
  IF m = 2 THEN (IF IsLeap(y) THEN 29 ELSE 28)
  ELSE IF m \in {4, 6, 9, 11} THEN 30 ELSE 31

\* What strptime raises ValueError on.
NoDate == <<>>

\* datetime.strptime(s, "%Y-%m-%d").date(): <<year, month, day>>, or NoDate
\* where strptime raises.
ParseDate(s) ==
  LET dashes == {i \in 1..Len(s) : Ch(s, i) = "-"}
  IN IF Cardinality(dashes) # 2 THEN NoDate
     ELSE LET d1 == Min(dashes)
              d2 == Max(dashes)
              ys == SubSeq(s, 1, d1 - 1)
              ms == SubSeq(s, d1 + 1, d2 - 1)
              ds == SubSeq(s, d2 + 1, Len(s))
          IN IF ~(MatchesYear(ys) /\ MatchesMonth(ms) /\ MatchesDay(ds))
             THEN NoDate
             ELSE LET y == NumVal(ys)
                      m == NumVal(ms)
                      d == NumVal(IF Ch(ds, 1) = " " THEN Tail(ds) ELSE ds)
                  IN IF y >= 1 /\ d <= DaysInMonth(y, m)
                     THEN <<y, m, d>>
                     ELSE NoDate

\* The order of datetime.date values.
DateNum(d) == d[1] * 10000 + d[2] * 100 + d[3]

(* ------------------------------ storage -------------------------------- *)

\* The keys an object of the bucket may have.
Universe ==
  { "Input/",
    "Input/2025-02-30_q.mp4",
    "Input/2025-07-21_a.mp4",
    "Input/2025-07-22_b.MOV",
    "Input/2025-7-21_c.avi",
    "Input/sub/2025-07-21_d.mp4",
    "Input_old/2025-07-20_z.mp4",
    "Output/2025-07-21_a/video_clips/a/c0.mp4",
    "Output/2025-07-21_a/video_clips/c1.mp4" }

Buckets == {b \in SUBSET Universe : Cardinality(b) <= MaxObjects}

\* The keys of the bucket that start with the prefix, in listing order.
KeysUnder(b, prefix) == SortKeys({k \in b : StartsWith(k, prefix)})

\* response.get("Contents", []) of one list_objects_v2 call: the first page.
S3ListObjectsV2(b, prefix) ==
  LET all == KeysUnder(b, prefix)
  IN SubSeq(all, 1, IF Len(all) < PageSize THEN Len(all) ELSE PageSize)

\* The condition of the comprehension of list_s3_files.
IsVideoKey(key) ==
  /\ \E sfx \in VideoSuffixes : EndsWith(Lower(key), sfx)
  /\ ~EndsWith(key, "/")

\* The keys of the objects list_s3_files keeps, in the order it keeps them.
ListedKeys(b, prefix) == SelectSeq(S3ListObjectsV2(b, prefix), IsVideoKey)

\* list_s3_files(prefix); raises: list_objects_v2 raises (storage
\* unreachable, permission denied).
list_s3_files(b, prefix, raises) ==
  IF raises THEN <<>>
  ELSE [i \in 1..Len(ListedKeys(b, prefix)) |-> Basename(ListedKeys(b, prefix)[i])]

\* What is known of one call of list_s3_files: its argument, whether the
\* storage call raised, the keys of the objects kept, and the value returned.
ListCall(b, prefix, raises) ==
  [ prefix |-> prefix,
    raised |-> raises,
    keys   |-> IF raises THEN <<>> ELSE ListedKeys(b, prefix),
    files  |-> list_s3_files(b, prefix, raises) ]

\* s3.generate_presigned_url: the URL of a key.
PresignedUrl(key) == "https://" \o BUCKET_NAME \o ".s3/" \o key \o "?sig"

\* generate_presigned_url(key); raises: the signing call raises.
generate_presigned_url(key, raises) == IF raises THEN None ELSE PresignedUrl(key)

\* Python truthiness of an optional string.
Truthy(x) == x # None /\ Len(x) > 0

\* st.video(url) without the test of the URL.
ShowVideoUnchecked(shown, url) == Append(shown, url)

\* "if url: st.video(url)": the videos shown so far, after one more URL.
ShowVideo(shown, url) == IF Truthy(url) THEN Append(shown, url) ELSE shown

(* ------------------------------ the index ------------------------------ *)

EmptyMap == [d \in {} |-> <<>>]

\* video_date_map[date_obj] = [filename]: the earlier files of the date are lost.
SetOverwrite(map, d, filename) == (d :> <<filename>>) @@ map

\* video_date_map.setdefault(date_obj, []).append(filename)
SetDefaultAppend(map, d, filename) ==
  IF d \in DOMAIN map
  THEN [map EXCEPT ![d] = Append(@, filename)]
  ELSE map @@ (d :> <<filename>>)

\* One turn of the loop: a file whose prefix does not parse is skipped.
IndexFile(map, filename) ==
  LET date_obj == ParseDate(SplitFirst(filename, "_"))
  IN IF date_obj = NoDate THEN map ELSE SetDefaultAppend(map, date_obj, filename)

RECURSIVE BuildDateMap(_, _)
\* The loop over input_videos.
BuildDateMap(files, map) ==
  IF files = <<>> THEN map
  ELSE BuildDateMap(Tail(files), IndexFile(map, Head(files)))

RECURSIVE SortedAsc(_)
\* sorted(video_date_map.keys()): oldest first.
SortedAsc(S) ==
  IF S = {} THEN <<>>
  ELSE LET d == CHOOSE x \in S : \A y \in S : DateNum(x) <= DateNum(y)
       IN <<d>> \o SortedAsc(S \ {d})

RECURSIVE SortedDesc(_)
\* sorted(video_date_map.keys(), reverse=True)
SortedDesc(S) ==
  IF S = {} THEN <<>>
  ELSE LET d == CHOOSE x \in S : \A y \in S : DateNum(x) >= DateNum(y)
       IN <<d>> \o SortedDesc(S \ {d})

\* value= of the date input.
DefaultDate(dates) == IF dates # <<>> THEN dates[1] ELSE Today

\* video_date_map.get(selected_date, [])
MapGet(map, d) == IF d \in DOMAIN map THEN map[d] ELSE <<>>

(* --------------------------- derived keys ------------------------------ *)

InputKey(name) == INPUT_PREFIX \o "/" \o name

DetectionPrefix(name) == OUTPUT_PREFIX \o "/" \o SplitextRoot(name)

LogKey(name) == DetectionPrefix(name) \o "/detection_csv/detection_log.csv"

ClipsPrefix(name) == DetectionPrefix(name) \o "/video_clips"

ClipKey(name, clip_file) == ClipsPrefix(name) \o "/" \o clip_file

(* -------------------------- the detection log -------------------------- *)

AllColumns == {"class", "timestamp", "latitude", "longitude", "video_link"}

TableColumns == <<"class", "video_link", "timestamp", "latitude", "longitude">>

\* The cell of a column in a row of the stored CSV.
CsvCell(c, i) == c \o "@" \o Ch(Digits, i + 1)

\* pd.read_csv of a log with these columns and n rows.
CsvFrame(cols, n) == [n |-> n, col |-> [c \in cols |-> [i \in 1..n |-> CsvCell(c, i)]]]

\* The column sets of the stored logs: every set with a timestamp column
\* (class and the three optional columns present or not), and one without.
LogColumnSets == {cols \in SUBSET AllColumns : "timestamp" \in cols} \cup {{"class"}}

\* What get_object and read_csv may meet: no object, no connection, no CSV,
\* or a log without rows or with MaxRows rows.
LogResponses ==
  {[kind |-> k, frame |-> <<>>] : k \in {"NotFound", "TransportError", "ParseError"}}
  \cup {[kind |-> "Ok", frame |-> <<CsvFrame(cols, n)>>] :
          cols \in LogColumnSets, n \in {0, MaxRows}}

\* The try block of the detection log: get_object raises when the object is
\* absent or the storage is unreachable, read_csv when the content is no CSV.
LogRaises(resp) == resp.kind \in {"NotFound", "TransportError"} \/ resp.kind = "ParseError"

\* A handler that takes a failed fetch for a log without rows and goes on.
LoadLogAsEmpty(resp) ==
  IF LogRaises(resp)
  THEN [df |-> <<CsvFrame({"class", "timestamp"}, 0)>>, warning |-> <<>>, stop |-> FALSE]
  ELSE [df |-> resp.frame, warning |-> <<>>, stop |-> FALSE]

\* The try/except of the detection log: the frame, the warning, st.stop().
LoadLog(resp) ==
  IF LogRaises(resp)
  THEN [df |-> <<>>, warning |-> <<LogNotFoundWarning>>, stop |-> TRUE]
  ELSE [df |-> resp.frame, warning |-> <<>>, stop |-> FALSE]

\* df_log[c] = v
SetColumn(df, c, v) == [df EXCEPT !.col = @ @@ (c :> [i \in 1..df.n |-> v])]

\* if c not in df_log.columns: df_log[c] = v
DefaultColumn(df, c, v) == IF c \in DOMAIN df.col THEN df ELSE SetColumn(df, c, v)

\* The default of video_link.
DefaultVideoLink(name, clip_files) ==
  IF clip_files # <<>>
  THEN "s3://" \o BUCKET_NAME \o "/" \o ClipsPrefix(name) \o "/" \o clip_files[1]
  ELSE NoVideoLink

\* The three defaults of the detection table, in the code's order.
ApplyDefaults(df, name, clip_files) ==
  DefaultColumn(
    DefaultColumn(
      DefaultColumn(df, "latitude", DefaultLatitude),
      "longitude", DefaultLongitude),
    "video_link", DefaultVideoLink(name, clip_files))

\* df_log[[...]] raises KeyError when a column is missing.
SelectRaises(df) == \E i \in 1..Len(TableColumns) : TableColumns[i] \notin DOMAIN df.col

\* df_log[['class', 'video_link', 'timestamp', 'latitude', 'longitude']]
SelectColumns(df) ==
  [n |-> df.n, col |-> [c \in {TableColumns[i] : i \in 1..Len(TableColumns)} |-> df.col[c]]]

\* df_log['class'] raises KeyError when the log has no class column.
PieRaises(df) == "class" \notin DOMAIN df.col

(* ------------------------------- state --------------------------------- *)

VARIABLES
  bucket,           \* the keys of the objects in storage
  pc,               \* where the pass is
  listed,           \* the calls of list_s3_files so far
  input_videos,
  video_date_map,
  available_dates,
  default_date,     \* value= of the date input
  selected_date,
  filtered_videos,
  selected_input,
  signed,           \* the calls of generate_presigned_url: key, raised, result
  log_response,     \* what the fetch of the detection log met
  df_log,           \* <<>> before the log is loaded, else <<frame>>
  clip_files,
  clip_i,           \* position in clip_files of the next clip of the grid
  videos,           \* the URLs given to st.video, in order
  messages,         \* the texts of st.warning, st.error and st.info, in order
  total,            \* <<>> or <<n>>: "Total Detections"
  table             \* <<>> or <<frame>>: st.dataframe

vars ==
  << bucket, pc, listed, input_videos, video_date_map, available_dates,
     default_date, selected_date, filtered_videos, selected_input, signed,
     log_response, df_log, clip_files, clip_i, videos, messages, total, table >>

NoResponse == [kind |-> "none", frame |-> <<>>]

Init ==
  /\ bucket \in Buckets
  /\ pc = "list_input"
  /\ listed = <<>>
  /\ input_videos = <<>>
  /\ video_date_map = EmptyMap
  /\ available_dates = <<>>
  /\ default_date = Today
  /\ selected_date = Today
  /\ filtered_videos = <<>>
  /\ selected_input = None
  /\ signed = <<>>
  /\ log_response = NoResponse
  /\ df_log = <<>>
  /\ clip_files = <<>>
  /\ clip_i = 1
  /\ videos = <<>>
  /\ messages = <<>>
  /\ total = <<>>
  /\ table = <<>>

\* Lines 94-106: the listing of the input namespace and the date index.
BuildIndex ==
  /\ pc = "list_input"
  /\ \E raises \in BOOLEAN :
       LET call == ListCall(bucket, INPUT_PREFIX, raises)
           map == BuildDateMap(call.files, EmptyMap)
       IN /\ listed' = Append(listed, call)
          /\ input_videos' = call.files
          /\ video_date_map' = map
          /\ available_dates' = SortedDesc(DOMAIN map)
          /\ default_date' = DefaultDate(SortedDesc(DOMAIN map))
  /\ pc' = "select"
  /\ UNCHANGED << bucket, selected_date, filtered_videos, selected_input, signed,
                  log_response, df_log, clip_files, clip_i, videos, messages,
                  total, table >>

\* The dates the user may set the date input to.
DateChoices == {default_date} \cup DOMAIN video_date_map \cup {Today}

\* Lines 110-124 and 194-195: the date input, the select box, and the
\* branch on selected_input.
SelectJob ==
  /\ pc = "select"
  /\ \E d \in DateChoices :
       LET fv == MapGet(video_date_map, d)
       IN /\ selected_date' = d
          /\ filtered_videos' = fv
          /\ IF fv = <<>>
             THEN /\ selected_input' = None
                  /\ messages' = messages \o <<NoVideosWarning, SelectVideoInfo>>
                  /\ pc' = "done"
             ELSE /\ \E i \in 1..Len(fv) : selected_input' = fv[i]
                  /\ messages' = messages
                  /\ pc' = "input_url"
  /\ UNCHANGED << bucket, listed, input_videos, video_date_map, available_dates,
                  default_date, signed, log_response, df_log, clip_files, clip_i,
                  videos, total, table >>

\* Lines 125-130: the URL of the input video.
ShowInputVideo ==
  /\ pc = "input_url"
  /\ \E raises \in BOOLEAN :
       LET input_key == InputKey(selected_input)
           input_url == generate_presigned_url(input_key, raises)
       IN /\ signed' = Append(signed, [key |-> input_key, raised |-> raises, url |-> input_url])
          /\ videos' = ShowVideo(videos, input_url)
          /\ messages' = IF Truthy(input_url) THEN messages
                         ELSE Append(messages, InputUrlError)
  /\ pc' = "fetch_log"
  /\ UNCHANGED << bucket, listed, input_videos, video_date_map, available_dates,
                  default_date, selected_date, filtered_videos, selected_input,
                  log_response, df_log, clip_files, clip_i, total, table >>

\* Lines 133-148: the detection log.
LoadDetectionLog ==
  /\ pc = "fetch_log"
  /\ \E resp \in LogResponses :
       LET r == LoadLog(resp)
       IN /\ log_response' = resp
          /\ df_log' = r.df
          /\ messages' = messages \o r.warning
          /\ pc' = IF r.stop THEN "stopped" ELSE "list_clips"
  /\ UNCHANGED << bucket, listed, input_videos, video_date_map, available_dates,
                  default_date, selected_date, filtered_videos, selected_input,
                  signed, clip_files, clip_i, videos, total, table >>

\* Lines 151-154 and 166-167: the listing of the clips.
ListClips ==
  /\ pc = "list_clips"
  /\ \E raises \in BOOLEAN :
       LET call == ListCall(bucket, ClipsPrefix(selected_input), raises)
       IN /\ listed' = Append(listed, call)
          /\ clip_files' = call.files
          /\ messages' = IF call.files = <<>> THEN Append(messages, NoClipsInfo)
                         ELSE messages
          /\ pc' = IF call.files = <<>> THEN "pie" ELSE "clips"
  /\ clip_i' = 1
  /\ UNCHANGED << bucket, input_videos, video_date_map, available_dates,
                  default_date, selected_date, filtered_videos, selected_input,
                  signed, log_response, df_log, videos, total, table >>

\* Lines 155-165: one cell of the grid, clip_files[i + j].
ShowClip ==
  /\ pc = "clips"
  /\ \E raises \in BOOLEAN :
       LET clip_key == ClipKey(selected_input, clip_files[clip_i])
           presigned_url == generate_presigned_url(clip_key, raises)
       IN /\ signed' = Append(signed, [key |-> clip_key, raised |-> raises, url |-> presigned_url])
          /\ videos' = ShowVideo(videos, presigned_url)
  /\ clip_i' = clip_i + 1
  /\ pc' = IF clip_i = Len(clip_files) THEN "pie" ELSE "clips"
  /\ UNCHANGED << bucket, listed, input_videos, video_date_map, available_dates,
                  default_date, selected_date, filtered_videos, selected_input,
                  log_response, df_log, clip_files, messages, total, table >>

\* Lines 170-179: the pie chart and the total.
PieChart ==
  /\ pc = "pie"
  /\ total' = IF PieRaises(df_log[1]) THEN total ELSE <<df_log[1].n>>
  /\ pc' = "table"
  /\ UNCHANGED << bucket, listed, input_videos, video_date_map, available_dates,
                  default_date, selected_date, filtered_videos, selected_input,
                  signed, log_response, df_log, clip_files, clip_i, videos,
                  messages, table >>

\* Lines 182-193: the defaults and the detection table.
DetectionTable ==
  /\ pc = "table"
  /\ LET df == ApplyDefaults(df_log[1], selected_input, clip_files)
     IN /\ df_log' = <<df>>
        /\ table' = IF SelectRaises(df) THEN table ELSE <<SelectColumns(df)>>
        /\ messages' = IF SelectRaises(df) THEN Append(messages, TableError)
                       ELSE messages
  /\ pc' = "done"
  /\ UNCHANGED << bucket, listed, input_videos, video_date_map, available_dates,
                  default_date, selected_date, filtered_videos, selected_input,
                  signed, log_response, clip_files, clip_i, videos, total >>

Next ==
  \/ BuildIndex
  \/ SelectJob
  \/ ShowInputVideo
  \/ LoadDetectionLog
  \/ ListClips
  \/ ShowClip
  \/ PieChart
  \/ DetectionTable

Spec == Init /\ [][Next]_vars

\* The pass up to the selection of a job: the steps that build and use the
\* date index.  No later step changes the index or the selection.
IndexNext ==
  \/ BuildIndex
  \/ SelectJob

IndexSpec == Init /\ [][IndexNext]_vars

(* ------------------------------ claims --------------------------------- *)

\* The response of a fetch that found no log object.
NotFoundResponse == [kind |-> "NotFound", frame |-> <<>>]

LogFailures == {"NotFound", "ParseError", "TransportError"}

\* The keys of all the videos the storage holds under a prefix, every page.
AllVideoKeys(b, prefix) == SelectSeq(KeysUnder(b, prefix), IsVideoKey)

\* The date a file name carries.
DateOf(filename) == ParseDate(SplitFirst(filename, "_"))

\* The dates the files of a sequence carry, file by file.
DatesOf(files) == [i \in 1..Len(files) |-> DateOf(files[i])]

RECURSIVE FilesOn(_, _, _)
\* The files of a sequence that carry the date d, in order; dates are the
\* dates of the files.
FilesOn(files, dates, d) ==
  IF files = <<>> THEN <<>>
  ELSE (IF Head(dates) = d THEN <<Head(files)>> ELSE <<>>)
         \o FilesOn(Tail(files), Tail(dates), d)

\* The URLs of the signing calls that did not raise, in call order.
SignedUrls(calls) ==
  LET Ok(c) == ~c.raised
      ok == SelectSeq(calls, Ok)
  IN [i \in 1..Len(ok) |-> PresignedUrl(ok[i].key)]

\* C1: a transport failure is never given the outcome of a fetch that found
\* nothing: a listing that raised returns something else than a listing of a
\* prefix without objects returns, and a log fetch that met a transport error
\* ends otherwise than a fetch that found no log object.
C1_FailureDistinctFromEmpty ==
  /\ \A i \in 1..Len(listed) :
       listed[i].raised => listed[i].files # list_s3_files({}, listed[i].prefix, FALSE)
  /\ log_response.kind = "TransportError" => LoadLog(log_response) # LoadLog(NotFoundResponse)

C3_LogFailureNeverHalts ==
  /\ (log_response.kind \in LogFailures /\ pc \in {"stopped", "done"}) =>
       \E i \in 1..Len(listed) : listed[i].prefix = ClipsPrefix(selected_input)
  /\ pc = "stopped" => listed[1].raised

\* C4: when the listing of the input namespace fails, the index is empty and
\* the pass is halted, which a listing that succeeded without videos never
\* causes.
C4_IndexFailureHalts ==
  (Len(listed) >= 1 /\ listed[1].raised) =>
     /\ input_videos = <<>>
     /\ video_date_map = EmptyMap
     /\ pc = "stopped"

\* C5: the date index partitions the listed files: under every date are
\* exactly the listed files whose prefix parses as that date, in listing
\* order; no date has an empty entry; the entries together hold as many
\* files as the listing has parsable ones; a file whose prefix does not
\* parse is under no date.
C5_DateIndexPartitions ==
  pc # "list_input" =>
    LET dates == DatesOf(input_videos)
    IN /\ \A d \in DOMAIN video_date_map \cup {dates[i] : i \in 1..Len(dates)} \cup {Today} :
            d # NoDate => MapGet(video_date_map, d) = FilesOn(input_videos, dates, d)
       /\ NoDate \notin DOMAIN video_date_map
       /\ \A d \in DOMAIN video_date_map : video_date_map[d] # <<>>
       /\ \A i \in 1..Len(input_videos) :
            Cardinality({d \in DOMAIN video_date_map :
                           \E j \in 1..Len(video_date_map[d]) :
                             video_date_map[d][j] = input_videos[i]})
              = IF dates[i] = NoDate THEN 0 ELSE 1

C5_Witness ==
  /\ pc = "select"
  /\ video_date_map # EmptyMap
  /\ \E i \in 1..Len(input_videos) : DateOf(input_videos[i]) = NoDate

\* C6: a listing that did not raise returns every video stored under the
\* prefix, however many objects the prefix holds, and nothing else.
C6_ListsEveryVideo ==
  \A i \in 1..Len(listed) :
    ~listed[i].raised =>
      /\ listed[i].keys = AllVideoKeys(bucket, listed[i].prefix)
      /\ Len(listed[i].files) = Len(listed[i].keys)
      /\ \A j \in 1..Len(listed[i].files) :
           listed[i].files[j] = Basename(listed[i].keys[j])

\* C7: a signing call that raises yields None and one that does not yields
\* the URL of its key; once the grid of a selected job is done, every listed
\* clip has been signed in listing order, the videos shown are exactly the
\* URLs of the calls that did not raise, in call order (the input video
\* first), and the detection records are those of the fetched log.
C7_SigningFailureFiltersOnly ==
  /\ \A j \in 1..Len(signed) :
       signed[j].url = IF signed[j].raised THEN None ELSE PresignedUrl(signed[j].key)
  /\ (pc \in {"pie", "table", "done"} /\ Truthy(selected_input)) =>
       /\ Len(signed) = 1 + Len(clip_files)
       /\ signed[1].key = InputKey(selected_input)
       /\ \A i \in 1..Len(clip_files) :
            signed[1 + i].key = ClipKey(selected_input, clip_files[i])
       /\ videos = SignedUrls(signed)
       /\ df_log # <<>>
       /\ df_log[1].n = log_response.frame[1].n
       /\ \A c \in DOMAIN log_response.frame[1].col :
            df_log[1].col[c] = log_response.frame[1].col[c]

C7_Witness ==
  /\ pc = "done"
  /\ Len(clip_files) = 2
  /\ ~signed[1].raised
  /\ signed[2].raised
  /\ ~signed[3].raised
  /\ df_log[1].n > 0

\* The link a record without a video_link column is to get: the key of the
\* first clip the storage holds under the clip prefix, as it is or as an
\* s3:// URI, or "N/A" when the prefix holds no clip.
FirstClipLinks(b, prefix) ==
  IF AllVideoKeys(b, prefix) = <<>> THEN {NoVideoLink}
  ELSE { AllVideoKeys(b, prefix)[1],
         "s3://" \o BUCKET_NAME \o "/" \o AllVideoKeys(b, prefix)[1] }

\* C8: once the table step is done, a log fetched without a column has it
\* defaulted (latitude 12.9716, longitude 77.5946, video_link naming the key
\* of the first clip discovered, "N/A" without clips), a column of the log
\* is as fetched, and the total is the number of rows of the log.  Stated
\* for the passes whose clip listing did not raise.
C8_DefaultsMatchContract ==
  (pc = "done" /\ log_response.kind = "Ok" /\ ~listed[Len(listed)].raised) =>
    LET csv == log_response.frame[1]
        df == df_log[1]
    IN /\ df.n = csv.n
       /\ \A c \in DOMAIN csv.col : df.col[c] = csv.col[c]
       /\ total # <<>> => total[1] = csv.n
       /\ \A r \in 1..df.n :
            /\ "latitude" \notin DOMAIN csv.col => df.col["latitude"][r] = DefaultLatitude
            /\ "longitude" \notin DOMAIN csv.col => df.col["longitude"][r] = DefaultLongitude
            /\ "video_link" \notin DOMAIN csv.col =>
                 df.col["video_link"][r]
                   \in FirstClipLinks(bucket, ClipsPrefix(selected_input))

\* C9: the dates of the index are offered newest first, the videos offered
\* for selection never have an older one before a newer one, and the date
\* selected by default is the newest date that has a video.
C9_NewestFirst ==
  pc # "list_input" =>
    LET offered == DatesOf(filtered_videos)
        dates == DatesOf(input_videos)
    IN /\ \A i, j \in 1..Len(available_dates) :
            i < j => DateNum(available_dates[i]) > DateNum(available_dates[j])
       /\ \A i, j \in 1..Len(offered) :
            i < j => DateNum(offered[i]) >= DateNum(offered[j])
       /\ \A i \in 1..Len(dates) :
            dates[i] # NoDate =>
              /\ DateNum(default_date) >= DateNum(dates[i])
              /\ MapGet(video_date_map, default_date) # <<>>

C9_Witness ==
  /\ pc = "input_url"
  /\ Len(available_dates) >= 2
  /\ selected_date = default_date
  /\ default_date # Today

\* C10: every key an access URL is requested for is the key of the object
\* its name was listed from: INPUT_PREFIX/name for every input video of the
\* listing, clips_prefix/name for every clip of the listing.
C10_SignedKeysAreListedKeys ==
  /\ \A i \in 1..Len(listed) :
       \A j \in 1..Len(listed[i].files) :
         listed[i].prefix \o "/" \o listed[i].files[j] = listed[i].keys[j]
  /\ \A j \in 1..Len(signed) : signed[j].key \in bucket

====
